---- MODULE Spec2Model ----
(***************************************************************************)
(* Claims AI pipeline: the chat operation (router, structured and semantic *)
(* answer paths, streamed synthesis), the ingestion operation and the      *)
(* reset operation, in the two implementations the repository carries      *)
(* (backend/main1.py and data/main.py).                                    *)
(*                                                                         *)
(* Text is a sequence of one-character strings, so that strip, replace and *)
(* the substring test are computed as Python computes them.                *)
(***************************************************************************)
EXTENDS FiniteSets, Integers, Sequences, TLC

VARIABLES
    impl,             \* which main module serves the requests
    store,            \* committed rows of table "claims"
    vector_store,     \* rag_service.vector_store
    \* ---- one chat request (stream_generator) ----
    pc,               \* position of the generator
    events,           \* lines yielded to the StreamingResponse so far
    decision,         \* local: the router's answer, stripped
    generated_sql,    \* local: the sanitized query text
    data,             \* local: rows returned by the query
    context,          \* local: the retrieval context placed in the prompt
    final_summary,    \* local: accumulated answer
    calls,            \* number of invocations of each capability in this request
    reply,            \* what the classification call returned, unstripped
    seen_index,       \* the vector_store the lookup of this request found
    produced,         \* increments the generation capability has produced
    chat_txn,         \* the transaction of the request's database session
    db_closes,        \* times get_db has closed the session of the request
    \* ---- one ingestion request (upload_claims_data) ----
    upc,              \* position of the handler
    n_files,          \* len(files) of the request
    file_no,          \* index of the file being processed (1-based)
    all_files_df,     \* local: number of rows of all batches parsed so far
    total_records_processed,
    response,         \* what the ingestion request answered
    upload_seq,       \* number of ingestion requests begun so far
    pre_store,        \* the committed rows when the request began
    latest,           \* per identifier, the row this request committed last
    reset_seen,       \* a reset has run since this request began
    pre_index,        \* the vector_store when the request began
    stale_rows,       \* rows of all_files_df committed before a reset that ran since
    \* ---- history of the index ----
    index_stale,      \* the index was built from rows a reset had deleted before
    whole,            \* the chunks of the summary the index was built from
    \* ---- the reset request (clear_data) ----
    clear_response

sharedVars == <<impl, store, vector_store>>
chatVars   == <<pc, events, decision, generated_sql, data, context,
                final_summary, calls, reply, seen_index, produced, chat_txn,
                db_closes>>
uploadVars == <<upc, n_files, file_no, all_files_df, total_records_processed,
                response, upload_seq, pre_store, latest, reset_seen, pre_index,
                stale_rows>>
ghostVars  == <<index_stale, whole>>
vars == <<impl, store, vector_store, pc, events, decision, generated_sql, data,
          context, final_summary, calls, reply, seen_index, produced, chat_txn,
          db_closes, upc,
          n_files, file_no, all_files_df, total_records_processed, response,
          upload_seq, pre_store, latest, reset_seen, pre_index, stale_rows,
          index_stale, whole, clear_response>>

(***************************************************************************)
(* Bounds                                                                  *)
(***************************************************************************)
MaxChunks == 2        \* increments one synthesis stream produces at most
MaxIndexChunks == 1   \* chunks the splitter cuts a summary into at most
MaxFiles == 2         \* files of one ingestion request at most
MaxRows == 2          \* rows of one uploaded file at most
MaxUploads == 2       \* ingestion requests numbered at most

(***************************************************************************)
(* Text helpers (Python str)                                               *)
(***************************************************************************)
Whitespace == {" ", "\n"}

RECURSIVE LStrip(_)
LStrip(s) ==
    IF s = <<>> THEN s
    ELSE IF Head(s) \in Whitespace THEN LStrip(Tail(s)) ELSE s

RECURSIVE RStrip(_)
RStrip(s) ==
    IF s = <<>> THEN s
    ELSE IF s[Len(s)] \in Whitespace THEN RStrip(SubSeq(s, 1, Len(s) - 1)) ELSE s

\* str.strip()
Strip(s) == RStrip(LStrip(s))

\* str.replace(ch, empty) for a one-character ch
Remove(s, ch) == SelectSeq(s, LAMBDA c : c # ch)

ContainsExact(s, sub) == s = sub

\* sub in s
Contains(s, sub) ==
    \E i \in 0..(Len(s) - Len(sub)) : SubSeq(s, i + 1, i + Len(sub)) = sub

\* the backtick character
BACKTICK == "BACKTICK"
SEMICOLON == ";"

\* the STRUCTURED marker of the router
MARKER == <<"S", "Q", "L">>

\* generated_sql: the answer stripped, then backticks and semicolons removed
Sanitize(raw) == Remove(Remove(Strip(raw), BACKTICK), SEMICOLON)

RECURSIVE Concat(_)
Concat(ss) == IF ss = <<>> THEN <<>> ELSE Head(ss) \o Concat(Tail(ss))

(***************************************************************************)
(* Values                                                                  *)
(***************************************************************************)
Impls == {"backend", "data"}

\* models.Claim: the identifier and two of the non-identifier columns
Row(id, amount, status) ==
    [claim_id |-> id, claim_amount |-> amount, claim_status |-> status]

\* the rows uploaded files are made of: claims A and C, and claim B as first
\* filed and as later approved with another amount
Ids == {"A", "B", "C"}
Claim ==
    { Row("A", 1, "Pending"), Row("B", 1, "Pending"), Row("B", 2, "Approved"),
      Row("C", 1, "Pending") }

\* self.vector_store = None
None == [exists |-> FALSE, chunks |-> <<>>]

\* a chunk of the summary of ingestion request u
Chunk(u, i) == [src |-> u, part |-> i]

IndexPartial(chunks) == [exists |-> TRUE, chunks |-> Tail(chunks)]

\* FAISS.from_texts(texts=chunks, ...)
Index(chunks) == [exists |-> TRUE, chunks |-> chunks]

\* "No knowledge base has been created yet. Please upload data first."
Sentinel == <<[src |-> 0, part |-> 0]>>

\* answers of the router: the empty answer, SQL, SEMANTIC, unsure, SQL with
\* surrounding whitespace, and NoSQL
DecisionTexts ==
    { <<>>,
      <<"S", "Q", "L">>,
      <<"S", "E", "M", "A", "N", "T", "I", "C">>,
      <<"u", "n", "s", "u", "r", "e">>,
      <<" ", "S", "Q", "L", "\n">>,
      <<"N", "o", "S", "Q", "L">> }

\* Query texts the generation capability answers with.  One letter stands for
\* one statement: c = a SELECT COUNT over claims, a = SELECT * FROM claims,
\* x = a SELECT naming a column the table does not have, d = DELETE FROM claims.
SqlTexts ==
    { <<"c", ";">>,
      <<" ", BACKTICK, "a", BACKTICK, "\n">>,
      <<"x">>,
      <<"d", ";">>,
      <<"c", ";", "d">> }

\* increments of the synthesis stream (chunk.content)
ChunkTexts == { <<>>, <<"a">>, <<"b">> }

\* similarity_search(query, k=3)
TopK == 3

(***************************************************************************)
(* Stream events: json.dumps({"type": ..., "content": ...}) + "\n"         *)
(***************************************************************************)
Event(type, content) == [type |-> type, content |-> content]
QueryResult(rows) == [type |-> "query_result", data |-> rows]
\* f"An error occurred: {str(e)}"
ErrorEvent(e) == Event("error", <<"An error occurred: ", e>>)

Terminal == {"done", "error"}
Count(evs, t) == Cardinality({i \in 1..Len(evs) : evs[i].type = t})
OfType(evs, t) == SelectSeq(evs, LAMBDA e : e.type = t)
ChunkContents(evs) ==
    [i \in 1..Len(OfType(evs, "final_summary_chunk")) |->
        OfType(evs, "final_summary_chunk")[i].content]

(***************************************************************************)
(* The Structured Store as the chat operation reads it                     *)
(***************************************************************************)
Injective(f) == \A i, j \in DOMAIN f : f[i] = f[j] => i = j
\* the rows of a table in any order (no ORDER BY)
Orderings(S) == {o \in [1..Cardinality(S) -> S] : Injective(o)}

QueryKind(sql) ==
    IF sql = <<"c">> THEN "count"
    ELSE IF sql = <<"a">> THEN "all"
    ELSE IF sql = <<"d">> THEN "delete"
    ELSE IF sql = <<"x">> THEN "unknown_column"
    ELSE "syntax_error"

\* db.execute(text(generated_sql)); [dict(row) for row in result_proxy.mappings()]
\* the outcomes of the two lines: rows, or an exception (the statement is
\* rejected, it returns no rows, or the database connection fails)
ExecOutcomes(sql, st) ==
    {[raised |-> TRUE, rows |-> <<>>]}
    \cup (IF QueryKind(sql) = "count"
            THEN {[raised |-> FALSE, rows |-> <<[count |-> Cardinality(st)]>>]}
          ELSE IF QueryKind(sql) = "all"
            THEN {[raised |-> FALSE, rows |-> o] : o \in Orderings(st)}
          ELSE {})

\* the transaction db.execute opens in the session (autocommit=False): a
\* data-modifying statement leaves its changes pending in it
Execute(sql) == [open |-> TRUE, deletes |-> QueryKind(sql) = "delete"]

CloseCommits(txn, st) == IF txn.deletes THEN {} ELSE st

\* get_db, finally: db.close() ends the transaction without a commit, and the
\* table keeps the rows it had
Close(txn, st) == st

\* json.dumps(data, default=str)
JsonDumps(rows) == <<[json |-> rows]>>

\* json.dumps({"type": "query_result", "data": data}) has no default=: a row
\* holding a date (claim_date of SELECT *) cannot be serialized
MaySerialize(sql, rows) ==
    IF QueryKind(sql) = "all" /\ rows # <<>> THEN BOOLEAN ELSE {TRUE}

(***************************************************************************)
(* rag_service                                                             *)
(***************************************************************************)
\* the k best documents, in the order of their similarity to the query
Ranked(chunks, k) ==
    {o \in [1..(IF Len(chunks) < k THEN Len(chunks) ELSE k) -> 1..Len(chunks)] :
        Injective(o)}

QueryVectorStoreUnguarded(vs) ==
    IF ~vs.exists
      THEN {[raised |-> TRUE, text |-> <<>>]}
      ELSE {[raised |-> TRUE, text |-> <<>>]}
           \cup {[raised |-> FALSE, text |-> [i \in DOMAIN o |-> vs.chunks[o[i]]]] :
                    o \in Ranked(vs.chunks, TopK)}

\* RAGService.query_vector_store: the sentinel when there is no index, else
\* the joined documents of the similarity search, which may raise
QueryVectorStore(vs) ==
    IF ~vs.exists
      THEN {[raised |-> FALSE, text |-> Sentinel]}
      ELSE {[raised |-> TRUE, text |-> <<>>]}
           \cup {[raised |-> FALSE, text |-> [i \in DOMAIN o |-> vs.chunks[o[i]]]] :
                    o \in Ranked(vs.chunks, TopK)}

(***************************************************************************)
(* The chat operation: one request, one step per stretch of stream_generator *)
(* between two calls of a capability or two yields.                        *)
(***************************************************************************)
NoCalls == [classify |-> 0, sqlgen |-> 0, exec |-> 0, lookup |-> 0, synth |-> 0]
NoReply == [returned |-> FALSE, text |-> <<>>]
NotLooked == [looked |-> FALSE, index |-> None]
\* the session has no transaction open
NoTxn == [open |-> FALSE, deletes |-> FALSE]

\* backend/main1.py runs from the router to the first await of the synthesis
\* stream without yielding; data/main.py yields an event after every step
ChatBusy == impl = "backend" /\ pc \in {"branch", "execute", "synth"}
\* the ingestion handler runs from its last batch to its return without await
UploadBusy == upc = "rag"

Emit(e) == events' = Append(events, e)

RaiseThenDone(e) ==
    /\ events' = events \o <<ErrorEvent(e), Event("done", final_summary)>>
    /\ pc' = "finished"

RaiseWithFallback(e) ==
    /\ Emit(ErrorEvent(e))
    /\ pc' = IF pc = "classify" THEN "synth" ELSE "finished"

RaiseSilently(e) ==
    /\ events' = events
    /\ pc' = "finished"

RaiseAndRetry(e) ==
    /\ Emit(ErrorEvent(e))
    /\ pc' = "classify"

\* except Exception as e: yield the error event; the generator ends
Raise(e) ==
    /\ Emit(ErrorEvent(e))
    /\ pc' = "finished"

AccumulateLast(buf, c) == c

\* final_summary += chunk.content
Accumulate(buf, c) == buf \o c

ChunkEventsSkipEmpty(c) ==
    IF c = <<>> THEN <<>> ELSE <<Event("final_summary_chunk", c)>>

ChunkEventsThenProgress(c) ==
    <<Event("final_summary_chunk", c),
      Event("summarizing", <<"Generating final response...">>)>>

\* yield json.dumps({"type": "final_summary_chunk", "content": chunk.content})
ChunkEvents(c) == <<Event("final_summary_chunk", c)>>

\* a request arrives: get_db makes its session; the session of the request
\* before is dropped with whatever transaction it was left holding
ChatStart ==
    /\ pc = "idle" \/ (pc \in {"finished", "crashed"} /\ db_closes = 1)
    /\ pc' = "classify"
    /\ events' = <<>>
    /\ decision' = <<>>
    /\ generated_sql' = <<>>
    /\ data' = <<>>
    /\ context' = <<>>
    /\ final_summary' = <<>>
    /\ calls' = NoCalls
    /\ reply' = NoReply
    /\ seen_index' = NotLooked
    /\ produced' = <<>>
    /\ chat_txn' = NoTxn
    /\ db_closes' = 0
    /\ UNCHANGED <<sharedVars, uploadVars, ghostVars,
                   clear_response>>

\* decision = llm.invoke(router_prompt).content.strip()
Classify ==
    /\ pc = "classify"
    /\ ~UploadBusy
    /\ calls' = [calls EXCEPT !.classify = @ + 1]
    /\ \/ /\ \E raw \in DecisionTexts :
                /\ reply' = [returned |-> TRUE, text |-> raw]
                /\ decision' = Strip(raw)
                /\ events' =
                      IF impl = "data"
                        THEN Append(events,
                                 Event("thinking",
                                       <<"Decision: '">> \o Strip(raw)
                                           \o <<"'. Proceeding with chosen method...">>))
                        ELSE events
          /\ pc' = "branch"
       \/ /\ impl = "backend"
          /\ Raise("classification")
          /\ UNCHANGED <<reply, decision>>
       \/ /\ impl = "data"
          /\ pc' = "crashed"
          /\ UNCHANGED <<events, reply, decision>>
    /\ UNCHANGED <<sharedVars, generated_sql, data, context, final_summary,
                   seen_index, produced, chat_txn, db_closes,
                   uploadVars, ghostVars,
                   clear_response>>

\* if "SQL" in decision: generated_sql = llm.invoke(sql_prompt)...
GenerateSql ==
    /\ pc = "branch"
    /\ Contains(decision, MARKER)
    /\ calls' = [calls EXCEPT !.sqlgen = @ + 1]
    /\ \/ \E raw \in SqlTexts :
            /\ generated_sql' = Sanitize(raw)
            /\ events' = IF impl = "data"
                           THEN Append(events, Event("sql_generated", Sanitize(raw)))
                           ELSE events
            /\ pc' = "execute"
       \/ /\ Raise("query generation")
          /\ UNCHANGED generated_sql
    /\ UNCHANGED <<sharedVars, decision, data, context, final_summary, reply,
                   seen_index, produced, chat_txn, db_closes,
                   uploadVars, ghostVars,
                   clear_response>>

\* result_proxy = db.execute(text(generated_sql)); data = [...]
ExecuteQuery ==
    /\ pc = "execute"
    /\ ~UploadBusy
    /\ calls' = [calls EXCEPT !.exec = @ + 1]
    /\ chat_txn' = Execute(generated_sql)
    /\ \E out \in ExecOutcomes(generated_sql, store) :
          \/ /\ out.raised
             /\ Raise("query execution")
             /\ UNCHANGED <<data, context>>
          \/ /\ ~out.raised
             /\ data' = out.rows
             /\ context' = JsonDumps(out.rows)
             /\ \/ /\ impl = "backend"
                   /\ pc' = "synth"
                   /\ UNCHANGED events
                \/ /\ impl = "data"
                   /\ \E ok \in MaySerialize(generated_sql, out.rows) :
                         \/ /\ ok
                            /\ Emit(QueryResult(out.rows))
                            /\ pc' = "summarizing"
                         \/ /\ ~ok
                            /\ Raise("serialization")
    /\ UNCHANGED <<sharedVars, decision, generated_sql, final_summary, reply,
                   seen_index, produced, db_closes, uploadVars, ghostVars,
                   clear_response>>

\* data/main.py: yield the semantic_search notice
SemanticNotice ==
    /\ impl = "data"
    /\ pc = "branch"
    /\ ~Contains(decision, MARKER)
    /\ Emit(Event("semantic_search", <<"Searching knowledge base for insights...">>))
    /\ pc' = "lookup"
    /\ UNCHANGED <<sharedVars, decision, generated_sql, data, context, final_summary,
                   calls, reply, seen_index, produced, chat_txn, db_closes,
                   uploadVars, ghostVars,
                   clear_response>>

\* else: context = rag_service.query_vector_store(user_question)
SemanticSearch ==
    /\ \/ impl = "backend" /\ pc = "branch" /\ ~Contains(decision, MARKER)
       \/ impl = "data" /\ pc = "lookup"
    /\ ~UploadBusy
    /\ calls' = [calls EXCEPT !.lookup = @ + 1]
    /\ seen_index' = [looked |-> TRUE, index |-> vector_store]
    /\ \E out \in QueryVectorStore(vector_store) :
          \/ /\ out.raised
             /\ Raise("similarity search")
             /\ UNCHANGED context
          \/ /\ ~out.raised
             /\ context' = out.text
             /\ pc' = "synth"
             /\ events' = IF impl = "data"
                            THEN Append(events,
                                     Event("summarizing", <<"Generating final response...">>))
                            ELSE events
    /\ UNCHANGED <<sharedVars, decision, generated_sql, data, final_summary, reply,
                   produced, chat_txn, db_closes,
                   uploadVars, ghostVars,
                   clear_response>>

\* data/main.py, structured path: yield the summarizing notice
Summarizing ==
    /\ impl = "data"
    /\ pc = "summarizing"
    /\ Emit(Event("summarizing", <<"Generating final response...">>))
    /\ pc' = "synth"
    /\ UNCHANGED <<sharedVars, decision, generated_sql, data, context, final_summary,
                   calls, reply, seen_index, produced, chat_txn, db_closes,
                   uploadVars, ghostVars,
                   clear_response>>

\* final_summary = ""; async for chunk in llm.astream(prompt)
StartSynthesis ==
    /\ pc = "synth"
    /\ final_summary' = <<>>
    /\ calls' = [calls EXCEPT !.synth = @ + 1]
    /\ pc' = "streaming"
    /\ UNCHANGED <<sharedVars, events, decision, generated_sql, data, context, reply,
                   seen_index, produced, chat_txn, db_closes,
                   uploadVars, ghostVars,
                   clear_response>>

\* the stream produces an increment
StreamChunk ==
    /\ pc = "streaming"
    /\ Len(produced) < MaxChunks
    /\ \E c \in ChunkTexts :
          /\ produced' = Append(produced, c)
          /\ final_summary' = Accumulate(final_summary, c)
          /\ events' = events \o ChunkEvents(c)
    /\ UNCHANGED <<sharedVars, pc, decision, generated_sql, data, context, calls,
                   reply, seen_index, chat_txn, db_closes,
                   uploadVars, ghostVars,
                   clear_response>>

\* the stream signals completion: yield the done event
StreamEnd ==
    /\ pc = "streaming"
    /\ Emit(Event("done", final_summary))
    /\ pc' = "finished"
    /\ UNCHANGED <<sharedVars, decision, generated_sql, data, context, final_summary,
                   calls, reply, seen_index, produced, chat_txn, db_closes,
                   uploadVars, ghostVars,
                   clear_response>>

\* the stream raises
StreamFail ==
    /\ pc = "streaming"
    /\ Raise("generation")
    /\ UNCHANGED <<sharedVars, decision, generated_sql, data, context, final_summary,
                   calls, reply, seen_index, produced, chat_txn, db_closes,
                   uploadVars, ghostVars,
                   clear_response>>

\* get_db, finally: db.close(). chat has returned its StreamingResponse before
\* stream_generator runs; the framework resumes get_db once the body has been
\* sent, or, depending on its version, before the body is started
CloseSession ==
    /\ pc \in {"classify", "finished", "crashed"}
    /\ db_closes = 0
    /\ db_closes' = 1
    /\ store' = Close(chat_txn, store)
    /\ chat_txn' = NoTxn
    /\ UNCHANGED <<impl, vector_store, pc, events, decision, generated_sql, data,
                   context, final_summary, calls, reply, seen_index, produced,
                   uploadVars, ghostVars, clear_response>>

ChatNext ==
    \/ ChatStart
    \/ Classify
    \/ GenerateSql
    \/ ExecuteQuery
    \/ SemanticNotice
    \/ SemanticSearch
    \/ Summarizing
    \/ StartSynthesis
    \/ StreamChunk
    \/ StreamEnd
    \/ StreamFail
    \/ CloseSession

(***************************************************************************)
(* The reset operation                                                     *)
(***************************************************************************)
ClearDataKeepsIndex ==
    /\ ~ChatBusy
    /\ ~UploadBusy
    /\ store' = {}
    /\ clear_response' = [status |-> 200, deleted_rows |-> Cardinality(store)]
    /\ reset_seen' = (upc # "idle")
    /\ stale_rows' = all_files_df
    /\ UNCHANGED <<impl, vector_store, chatVars, upc, n_files, file_no, all_files_df,
                   total_records_processed, response, upload_seq, pre_store, latest,
                   pre_index, ghostVars>>

\* clear_data: delete every row, commit, clear the vector store; when the
\* delete or the commit raises, nothing is committed and the store is kept
ClearData ==
    /\ ~ChatBusy
    /\ ~UploadBusy
    /\ \/ /\ store' = {}
          /\ vector_store' = None
          /\ clear_response' = [status |-> 200, deleted_rows |-> Cardinality(store)]
          /\ reset_seen' = (upc # "idle")
          /\ stale_rows' = all_files_df
          /\ index_stale' = FALSE
          /\ whole' = <<>>
       \/ /\ clear_response' = [status |-> 500, deleted_rows |-> 0]
          /\ UNCHANGED <<store, vector_store, reset_seen, stale_rows, ghostVars>>
    /\ UNCHANGED <<impl, chatVars, upc, n_files, file_no, all_files_df,
                   total_records_processed, response, upload_seq, pre_store, latest,
                   pre_index>>

(***************************************************************************)
(* The Structured Store as the ingestion operation writes it               *)
(***************************************************************************)
IdsOf(rows) == {rows[i].claim_id : i \in DOMAIN rows}
DistinctIds(rows) == \A i, j \in DOMAIN rows : rows[i].claim_id = rows[j].claim_id => i = j

InsertRow(st, r) == st \cup {r}

UpsertAmountOnly(st, r) ==
    IF \E q \in st : q.claim_id = r.claim_id
      THEN {IF q.claim_id = r.claim_id
              THEN [q EXCEPT !.claim_amount = r.claim_amount]
              ELSE q : q \in st}
      ELSE st \cup {r}

\* INSERT ... ON CONFLICT (claim_id) DO UPDATE SET <every column but claim_id>
UpsertRow(st, r) ==
    IF \E q \in st : q.claim_id = r.claim_id
      THEN {IF q.claim_id = r.claim_id
              THEN [q EXCEPT !.claim_amount = r.claim_amount,
                             !.claim_status = r.claim_status]
              ELSE q : q \in st}
      ELSE st \cup {r}

RECURSIVE Upsert(_, _)
Upsert(st, rows) ==
    IF rows = <<>> THEN st ELSE Upsert(UpsertRow(st, Head(rows)), Tail(rows))

\* a session: the committed rows and the rows its open transaction sees
Begin(st) == [committed |-> st, pending |-> st]
\* db.commit()
Commit(txn) == txn.pending
RollbackKeepsPending(txn) == txn.pending
\* db.rollback()
Rollback(txn) == txn.committed

\* backend/main1.py: db.execute(stmt); db.commit() -- or the except clause.
\* The statement raises when the batch names one identifier twice (it cannot
\* affect a row a second time) or when the database fails; so may the commit.
UpsertOutcomes(st, rows) ==
    {[raised |-> TRUE, rows |-> Rollback(Begin(st))]}
    \cup (IF DistinctIds(rows)
            THEN { [raised |-> TRUE,
                    rows |-> Rollback([Begin(st) EXCEPT !.pending = Upsert(@, rows)])],
                   [raised |-> FALSE,
                    rows |-> Commit([Begin(st) EXCEPT !.pending = Upsert(@, rows)])] }
            ELSE {})

\* data/main.py: db.bulk_insert_mappings(models.Claim, data); db.commit().
\* The insert raises on an identifier the table or the batch already holds.
InsertOutcomes(st, rows) ==
    {[raised |-> TRUE, rows |-> Rollback(Begin(st))]}
    \cup (IF DistinctIds(rows) /\ IdsOf(rows) \cap {q.claim_id : q \in st} = {}
            THEN { [raised |-> TRUE,
                    rows |-> Rollback([Begin(st) EXCEPT
                                          !.pending = @ \cup {rows[i] : i \in DOMAIN rows}])],
                   [raised |-> FALSE,
                    rows |-> Commit([Begin(st) EXCEPT
                                        !.pending = @ \cup {rows[i] : i \in DOMAIN rows}])] }
            ELSE {})

\* the rows pd.read_csv parses from one uploaded file
Batches == UNION {[1..n -> Claim] : n \in 0..MaxRows}

(***************************************************************************)
(* The ingestion operation: one request, one step per stretch of           *)
(* upload_claims_data between two awaits of file.read()                    *)
(***************************************************************************)
\* no answer yet
NoResponse == [status |-> 0, detail |-> 0, count |-> 0]
\* HTTPException(500, detail=f"Error processing file {file.filename}.")
Rejected(file) == [status |-> 500, detail |-> file, count |-> 0]
\* an exception the handler does not catch
ServerError == [status |-> 500, detail |-> 0, count |-> 0]
\* f"Successfully processed {total_records_processed} records. ..."
Processed(n) == [status |-> 200, detail |-> 0, count |-> n]

\* RecursiveCharacterTextSplitter.split_text: the chunks of a summary that is
\* n chunks long
SplitText(u, n) == [i \in 1..n |-> Chunk(u, i)]

\* the handler returns or raises: its locals end with it
Return(r) ==
    /\ response' = r
    /\ upc' = "done"
    /\ n_files' = 0
    /\ file_no' = 0
    /\ all_files_df' = 0
    /\ total_records_processed' = 0
    /\ stale_rows' = 0

UploadStart ==
    /\ upc \in {"idle", "done"}
    /\ ~ChatBusy
    /\ upload_seq < MaxUploads
    /\ \E n \in 1..MaxFiles : n_files' = n
    /\ upc' = "reading"
    /\ file_no' = 1
    /\ all_files_df' = 0
    /\ total_records_processed' = 0
    /\ response' = NoResponse
    /\ upload_seq' = upload_seq + 1
    /\ pre_store' = store
    /\ latest' = {}
    /\ reset_seen' = FALSE
    /\ pre_index' = vector_store
    /\ stale_rows' = 0
    /\ UNCHANGED <<sharedVars, chatVars, ghostVars, clear_response>>

\* for file in files: the loop goes on to the next file or ends
NextFile ==
    /\ upc' = IF file_no < n_files THEN "reading" ELSE "rag"
    /\ file_no' = IF file_no < n_files THEN file_no + 1 ELSE file_no
    /\ UNCHANGED <<n_files, response, stale_rows>>

CommittedCountsLast(batch) ==
    /\ total_records_processed' = Len(batch)
    /\ latest' = {q \in latest : q.claim_id \notin IdsOf(batch)}
                   \cup {batch[i] : i \in DOMAIN batch}
    /\ NextFile

\* the batch is committed: count its rows
Committed(batch) ==
    /\ total_records_processed' = total_records_processed + Len(batch)
    /\ latest' = {q \in latest : q.claim_id \notin IdsOf(batch)}
                   \cup {batch[i] : i \in DOMAIN batch}
    /\ NextFile

ProcessFileDropsIndex ==
    /\ upc = "reading"
    /\ ~ChatBusy
    /\ \/ /\ Return(Rejected(file_no))
          /\ vector_store' = None
          /\ UNCHANGED <<store, latest>>
       \/ \E df \in Batches :
            \/ /\ impl = "backend"
               /\ df = <<>>
               /\ all_files_df' = all_files_df + Len(df)
               /\ NextFile /\ UNCHANGED vector_store
               /\ UNCHANGED <<store, total_records_processed, latest>>
            \/ /\ impl = "backend"
               /\ df # <<>>
               /\ \E out \in UpsertOutcomes(store, df) :
                     /\ store' = out.rows
                     /\ \/ /\ out.raised
                           /\ Return(Rejected(file_no))
                           /\ vector_store' = None
                           /\ UNCHANGED latest
                        \/ /\ ~out.raised
                           /\ all_files_df' = all_files_df + Len(df)
                           /\ Committed(df) /\ UNCHANGED vector_store
            \/ /\ impl = "data"
               /\ \E out \in InsertOutcomes(store, df) :
                     /\ store' = out.rows
                     /\ \/ /\ out.raised
                           /\ Return(Rejected(file_no))
                           /\ vector_store' = None
                           /\ UNCHANGED latest
                        \/ /\ ~out.raised
                           /\ all_files_df' = all_files_df + Len(df)
                           /\ Committed(df) /\ UNCHANGED vector_store
    /\ UNCHANGED <<impl, chatVars, upload_seq, pre_store, reset_seen,
                   pre_index, ghostVars, clear_response>>

\* one turn of the loop: read and parse the file, write its rows, commit;
\* except Exception: db.rollback(); raise HTTPException naming the file
ProcessFile ==
    /\ upc = "reading"
    /\ ~ChatBusy
    /\ \/ /\ Return(Rejected(file_no))
          /\ UNCHANGED <<store, latest>>
       \/ \E df \in Batches :
            \/ /\ impl = "backend"
               /\ df = <<>>
               /\ all_files_df' = all_files_df + Len(df)
               /\ NextFile
               /\ UNCHANGED <<store, total_records_processed, latest>>
            \/ /\ impl = "backend"
               /\ df # <<>>
               /\ \E out \in UpsertOutcomes(store, df) :
                     /\ store' = out.rows
                     /\ \/ /\ out.raised
                           /\ Return(Rejected(file_no))
                           /\ UNCHANGED latest
                        \/ /\ ~out.raised
                           /\ all_files_df' = all_files_df + Len(df)
                           /\ Committed(df)
            \/ /\ impl = "data"
               /\ \E out \in InsertOutcomes(store, df) :
                     /\ store' = out.rows
                     /\ \/ /\ out.raised
                           /\ Return(Rejected(file_no))
                           /\ UNCHANGED latest
                        \/ /\ ~out.raised
                           /\ all_files_df' = all_files_df + Len(df)
                           /\ Committed(df)
    /\ UNCHANGED <<impl, vector_store, chatVars, upload_seq, pre_store, reset_seen,
                   pre_index, ghostVars, clear_response>>

\* after the loop: summarize the combined batches and rebuild the index;
\* the summary call, the embedding call or an empty summary raises
FinishUpload ==
    /\ upc = "rag"
    /\ \/ /\ all_files_df = 0
          /\ Return(Processed(total_records_processed))
          /\ UNCHANGED <<vector_store, ghostVars>>
       \/ /\ all_files_df > 0
          /\ \E n \in 1..MaxIndexChunks :
                /\ vector_store' = Index(SplitText(upload_seq, n))
                /\ whole' = SplitText(upload_seq, n)
          /\ index_stale' = (stale_rows > 0)
          /\ Return(Processed(total_records_processed))
       \/ /\ all_files_df > 0
          /\ Return(ServerError)
          /\ UNCHANGED <<vector_store, ghostVars>>
    /\ UNCHANGED <<impl, store, chatVars, upload_seq, pre_store, latest, reset_seen,
                   pre_index, clear_response>>

IngestNext ==
    \/ UploadStart
    \/ ProcessFile
    \/ FinishUpload

(***************************************************************************)
(* Specifications                                                          *)
(***************************************************************************)
IdleChat ==
    /\ pc = "idle"
    /\ events = <<>>
    /\ decision = <<>>
    /\ generated_sql = <<>>
    /\ data = <<>>
    /\ context = <<>>
    /\ final_summary = <<>>
    /\ calls = NoCalls
    /\ reply = NoReply
    /\ seen_index = NotLooked
    /\ produced = <<>>
    /\ chat_txn = NoTxn
    /\ db_closes = 0

IdleUpload ==
    /\ upc = "idle"
    /\ n_files = 0
    /\ file_no = 0
    /\ all_files_df = 0
    /\ total_records_processed = 0
    /\ response = NoResponse
    /\ upload_seq = 0
    /\ pre_store = {}
    /\ latest = {}
    /\ reset_seen = FALSE
    /\ pre_index = None
    /\ stale_rows = 0

\* the process after start-up: empty table, no index
Init ==
    /\ impl \in Impls
    /\ store = {}
    /\ vector_store = None
    /\ IdleChat
    /\ IdleUpload
    /\ index_stale = FALSE
    /\ whole = <<>>
    /\ clear_response = [status |-> 0, deleted_rows |-> 0]

\* states of the table and the index that ingestion requests leave behind
ChatSeeds ==
    { <<{}, None>>,
      <<{Row("A", 1, "Pending")}, None>>,
      <<{Row("A", 1, "Pending"), Row("B", 2, "Approved")},
         Index(<<Chunk(1, 1), Chunk(1, 2)>>)>> }

\* chat requests and resets against a table and an index already built
InitChat ==
    /\ impl \in Impls
    /\ \E seed \in ChatSeeds :
          /\ store = seed[1]
          /\ vector_store = seed[2]
          /\ whole = seed[2].chunks
    /\ index_stale = FALSE
    /\ IdleChat
    /\ IdleUpload
    /\ clear_response = [status |-> 0, deleted_rows |-> 0]

NextChat == ChatNext \/ ClearData

SpecChat == InitChat /\ [][NextChat]_vars

\* ingestion requests and resets from start-up
NextIngest == IngestNext \/ ClearData

\* a step of the request that is running: every call of a capability returns
\* or raises, the synthesis stream yields an increment, ends or fails, and
\* the event loop resumes the generator
ChatStep ==
    \/ Classify
    \/ GenerateSql
    \/ ExecuteQuery
    \/ SemanticNotice
    \/ SemanticSearch
    \/ Summarizing
    \/ StartSynthesis
    \/ StreamChunk
    \/ StreamEnd
    \/ StreamFail
SpecChatFair == InitChat /\ [][NextChat]_vars /\ WF_vars(ChatStep)

\* a chat request that takes the semantic path, starting at any time, and
\* whose synthesis stream ends or fails before its first increment, among
\* reset requests and ingestion requests; no action here reads the rows of
\* the table, and the files hold rows of one claim
LookupRows == {Row("A", 1, "Pending")}
NextLookup ==
    \/ ChatStart
    \/ Classify
    \/ SemanticNotice
    \/ SemanticSearch
    \/ StartSynthesis
    \/ StreamEnd
    \/ StreamFail
    \/ IngestNext /\ store' \subseteq LookupRows
    \/ ClearData
SpecLookup == Init /\ [][NextLookup]_vars

SpecIngest == Init /\ [][NextIngest]_vars

\* the whole service: chat, ingestion and reset requests interleaved (its
\* states are the product of those of SpecChat and SpecIngest)
Next == ChatNext \/ IngestNext \/ ClearData

Spec == Init /\ [][Next]_vars

(***************************************************************************)
(* Properties of the chat operation                                        *)
(***************************************************************************)
ChatEnded == pc \in {"finished", "crashed"}
Last(evs) == evs[Len(evs)]
Emitted(e) == \E i \in 1..Len(events) : events[i] = e
\* the text holds the letters S, Q, L in a row
HasMarker(t) ==
    \E i \in 1..(Len(t) - 2) : t[i] = "S" /\ t[i + 1] = "Q" /\ t[i + 2] = "L"
StructuredRun == calls.sqlgen > 0
SemanticRun == calls.lookup > 0

\* C1: when a chat request has ended, its stream holds exactly one terminal
\* event (done or error) and that event is the last one, in both
\* implementations and whatever each step returned or raised.
C1_OneTerminalEventLast ==
    ChatEnded =>
        /\ Count(events, "done") + Count(events, "error") = 1
        /\ Last(events).type \in Terminal

\* C2: every final_summary_chunk event precedes the done event, there is one
\* chunk event per increment the stream produced, in the order produced, and
\* the content of done is the concatenation of the chunk contents.
C2_DoneCarriesChunks ==
    \A i \in 1..Len(events) :
        events[i].type = "done" =>
            /\ \A j \in 1..Len(events) :
                  events[j].type = "final_summary_chunk" => j < i
            /\ ChunkContents(events) = produced
            /\ events[i].content = Concat(ChunkContents(events))

C2_Witness ==
    /\ pc = "finished"
    /\ Last(events).type = "done"
    /\ produced = << <<"a">>, <<"b">> >>

\* C3: the structured path runs only for a router answer that holds the
\* marker, the semantic path only for one that does not, never both, and a
\* request whose classification returned and that has ended ran one of them.
C3_RoutingByMarker ==
    /\ StructuredRun => reply.returned /\ HasMarker(reply.text)
    /\ SemanticRun => reply.returned /\ ~HasMarker(reply.text)
    /\ ~(StructuredRun /\ SemanticRun)
    /\ (pc = "finished" /\ reply.returned) => (StructuredRun \/ SemanticRun)

C3_Witness ==
    /\ pc = "finished"
    /\ reply.text = <<"N", "o", "S", "Q", "L">>
    /\ StructuredRun

\* C4: a request on the structured path whose query executed emits
\* sql_generated with the sanitized text, then query_result with the rows,
\* and only then the chunk events and done, in both implementations.
C4_StructuredEventOrder ==
    (pc = "finished" /\ calls.exec = 1 /\ ~Emitted(ErrorEvent("query execution"))) =>
        \E i, j \in 1..Len(events) :
            /\ i < j
            /\ events[i] = Event("sql_generated", generated_sql)
            /\ events[j] = QueryResult(data)
            /\ \A k \in 1..Len(events) :
                  events[k].type \in {"final_summary_chunk", "done"} => j < k

\* C5: when the execution of the generated query fails, the stream holds one
\* error event, which is last, and no done, query_result or chunk event; the
\* query was generated once and executed once and synthesis was not invoked.
C5_ExecFailureEndsStream ==
    Emitted(ErrorEvent("query execution")) =>
        /\ pc = "finished"
        /\ Count(events, "error") = 1
        /\ Last(events).type = "error"
        /\ Count(events, "done") = 0
        /\ Count(events, "query_result") = 0
        /\ Count(events, "final_summary_chunk") = 0
        /\ calls.sqlgen = 1
        /\ calls.exec = 1
        /\ calls.synth = 0

C5_Witness ==
    /\ impl = "data"
    /\ generated_sql = <<"x">>
    /\ Emitted(ErrorEvent("query execution"))

\* C6: when the synthesis stream fails after k increments, the stream holds
\* exactly those k chunk events, in order, directly followed by one error
\* event, and no done event.
C6_SynthesisFailureTruncates ==
    Emitted(ErrorEvent("generation")) =>
        /\ ChunkContents(events) = produced
        /\ Count(events, "error") = 1
        /\ Count(events, "done") = 0
        /\ Last(events).type = "error"
        /\ \A j \in 1..Len(events) :
              (Len(events) - Len(produced) <= j /\ j < Len(events))
                  <=> events[j].type = "final_summary_chunk"

C6_Witness ==
    /\ Emitted(ErrorEvent("generation"))
    /\ produced = << <<"b">>, <<>> >>
    /\ SemanticRun

\* C7: a lookup that finds no vector index does not raise; the request goes
\* on to synthesis with the sentinel as its context and ends with done unless
\* the synthesis stream itself fails.
C7_NoIndexGivesSentinel ==
    (seen_index.looked /\ ~seen_index.index.exists) =>
        /\ context = Sentinel
        /\ ~Emitted(ErrorEvent("similarity search"))
        /\ pc \in {"synth", "streaming", "finished"}
        /\ pc = "finished" =>
              /\ calls.synth = 1
              /\ \/ Last(events).type = "done"
                 \/ Last(events) = ErrorEvent("generation")

C7_Witness ==
    /\ pc = "finished"
    /\ clear_response = [status |-> 200, deleted_rows |-> 2]
    /\ seen_index.looked
    /\ ~seen_index.index.exists
    /\ context = Sentinel
    /\ Last(events).type = "done"

(***************************************************************************)
(* Properties of the ingestion operation                                   *)
(***************************************************************************)
StoredIds == {q.claim_id : q \in store}
LatestIds == {q.claim_id : q \in latest}
PreIds == {q.claim_id : q \in pre_store}

\* C8: with backend/main1.py the table holds at most one row per claim_id,
\* and while no reset has run since a request began the table is what it was
\* before the request with, for every identifier of a committed batch, the
\* row of the batch last committed in place of the old one or added.
C8_OneRecordPerIdentifier ==
    impl = "backend" =>
        /\ \A p, q \in store : p.claim_id = q.claim_id => p = q
        /\ (upc # "idle" /\ ~reset_seen) =>
              store = {q \in pre_store : q.claim_id \notin LatestIds} \cup latest

C8_Witness ==
    /\ impl = "backend"
    /\ upc = "done"
    /\ ~reset_seen
    /\ pre_store = {Row("A", 1, "Pending"), Row("B", 1, "Pending")}
    /\ latest = {Row("B", 2, "Approved"), Row("C", 1, "Pending")}
    /\ store = {Row("A", 1, "Pending"), Row("B", 2, "Approved"), Row("C", 1, "Pending")}

\* C9 as stated: after a request that committed a batch the number of rows of
\* the table is the number of distinct identifiers of the request's batches.
C9_CountIsDistinctIdsOfRequest ==
    (impl = "backend" /\ upc = "done" /\ response.status = 200 /\ latest # {}
        /\ ~reset_seen) =>
        Cardinality(store) = Cardinality(LatestIds)

\* C9 as amended: after a request during which no reset ran, the number of
\* rows of the table is the number of distinct identifiers among the rows it
\* held before the request and the batches the request committed, and an
\* identifier of several committed batches carries the values of the latest.
C9_CountIsDistinctIdsWithPrior ==
    (impl = "backend" /\ upc = "done" /\ ~reset_seen) =>
        /\ Cardinality(store) = Cardinality(PreIds \cup LatestIds)
        /\ StoredIds = PreIds \cup LatestIds
        /\ latest \subseteq store

C9_Witness ==
    /\ impl = "backend"
    /\ upc = "done"
    /\ ~reset_seen
    /\ response = Processed(2)
    /\ pre_store = {Row("A", 1, "Pending")}
    /\ latest = {Row("B", 2, "Approved")}
    /\ Cardinality(store) = 2

\* C10: the step in which a batch fails answers with the error naming the
\* file of that batch, leaves the table as it was (the rows of the batch are
\* not stored, those of the batches before it stay) and ends the request: no
\* later step of the request writes to the table.
C10_FailedBatchRolledBack ==
    [][ /\ (upc = "reading" /\ upc' = "done") =>
              /\ response' = Rejected(file_no)
              /\ store' = store
        /\ (upc = "done" /\ upc' = "done") => store' \in {store, {}}
      ]_vars

C10_Witness ==
    /\ upc = "done"
    /\ response = Rejected(2)
    /\ ~reset_seen
    /\ latest = {Row("A", 1, "Pending")}
    /\ store = pre_store \cup latest


(***************************************************************************)
(* The Vector Index under ingestion and reset                              *)
(***************************************************************************)
\* the request went through all its batches: it was not rejected at a file
AllBatchesProcessed == upc = "done" /\ response.detail = 0
FromRequest(vs, u) ==
    /\ vs.exists
    /\ vs.chunks # <<>>
    /\ \A i \in DOMAIN vs.chunks : vs.chunks[i].src = u

\* C11: after a request that went through all its batches without a failure
\* (and during which no reset ran), when it ingested at least one row the
\* index exists and every chunk of it comes from the summary of this
\* request, none from an earlier index; when it ingested no row the index is
\* the one the request found.
C11_IndexRebuiltFromRequest ==
    (AllBatchesProcessed /\ ~reset_seen) =>
        IF latest # {}
          THEN FromRequest(vector_store, upload_seq)
          ELSE vector_store = pre_index

\* C12: a reset that completes leaves the table empty and the index absent,
\* and the deleted_rows it reports is the number of rows the table held when
\* it started; nothing else empties a table that held rows.
C12_ClearLeavesNothing ==
    [][ /\ (clear_response' # clear_response /\ clear_response'.status = 200) =>
              /\ store' = {}
              /\ vector_store' = None
              /\ clear_response'.deleted_rows = Cardinality(store)
        /\ (store # {} /\ store' = {}) =>
              /\ vector_store' = None
              /\ clear_response' = [status |-> 200, deleted_rows |-> Cardinality(store)]
      ]_vars

C12_Witness ==
    /\ clear_response = [status |-> 200, deleted_rows |-> 2]
    /\ store = {}
    /\ vector_store = None
    /\ upc = "done"
    /\ response = Processed(2)
    /\ reset_seen

\* C13: once a reset has completed, the index never holds chunks of a
\* summary that covers batches committed before that reset, also when an
\* ingestion request was between two of its batches while the reset ran.
C13_NoChunksFromBeforeClear ==
    vector_store.exists => ~index_stale

\* C14: under every interleaving of chat requests with ingestion and reset
\* requests, a similarity lookup observes no index or one complete index (all
\* the chunks of the summary of one request, in their order), and the
\* documents it returns are chunks of that index; never part of an index or
\* a mix of two.
C14_LookupSeesWholeIndex ==
    /\ [][(~seen_index.looked /\ seen_index'.looked) =>
              \/ seen_index'.index = None
              \/ /\ whole # <<>>
                 /\ seen_index'.index.exists
                 /\ seen_index'.index.chunks = whole
                 /\ \E u \in 1..MaxUploads : whole = SplitText(u, Len(whole))
          ]_vars
    /\ [](seen_index.looked /\ (pc \in {"synth", "streaming"} \/ ChatEnded) =>
              IF seen_index.index = None
                THEN context = Sentinel
                ELSE \A i \in DOMAIN context :
                        \E j \in DOMAIN seen_index.index.chunks :
                            context[i] = seen_index.index.chunks[j])

C14_Witness ==
    /\ seen_index.looked
    /\ seen_index.index.chunks = SplitText(1, 1)
    /\ context = SplitText(1, 1)
    /\ vector_store.chunks = SplitText(2, 1)
    /\ pc = "streaming"

\* C15: no step of a chat request, and not the closing of its session,
\* changes the rows of the table or the index, whatever the generated query
\* text (a DELETE included) and whatever the outcome of the request; they
\* change in steps of the ingestion and reset operations only.
C15_ChatLeavesStoreAndIndex ==
    [][(chatVars' # chatVars) => (store' = store /\ vector_store' = vector_store)]_vars

C15_Witness ==
    /\ pc = "finished"
    /\ generated_sql = <<"d">>
    /\ calls.exec = 1
    /\ ~chat_txn.open
    /\ Emitted(ErrorEvent("query execution"))
    /\ store # {}
    /\ vector_store.exists

\* the classification call was made and raised
ClassificationRaised == calls.classify = 1 /\ ~reply.returned /\ pc # "classify"

\* C16: with backend/main1.py, when the classification call raises, the
\* stream of the request is one error event and nothing else, the request
\* has ended, and no query generation, query execution, index lookup or
\* synthesis was or is attempted.
C16_ClassificationFailureEndsRequest ==
    (impl = "backend" /\ ClassificationRaised) =>
        /\ events = <<ErrorEvent("classification")>>
        /\ pc = "finished"
        /\ calls = [NoCalls EXCEPT !.classify = 1]
        /\ ~seen_index.looked
        /\ ~chat_txn.open

C16_Witness ==
    /\ impl = "backend"
    /\ ClassificationRaised
    /\ Len(events) = 1
    /\ Last(events).type = "error"
    /\ store # {}
    /\ vector_store.exists

\* C17: within one chat request of either implementation the classification
\* is invoked exactly once (once the request is past it), the query
\* generation, the query execution, the index lookup and the synthesis at
\* most once each, and once an error event is in the stream no capability
\* is invoked again in that request.
C17_CapabilitiesInvokedOnce ==
    /\ [](/\ calls.classify <= 1
          /\ (pc \notin {"idle", "classify"}) => calls.classify = 1
          /\ calls.sqlgen <= 1
          /\ calls.exec <= 1
          /\ calls.lookup <= 1
          /\ calls.synth <= 1)
    /\ [][(Count(events, "error") > 0 /\ events' # <<>>) => calls' = calls]_vars

C17_Witness ==
    /\ pc = "finished"
    /\ calls = [classify |-> 1, sqlgen |-> 1, exec |-> 1, lookup |-> 0, synth |-> 1]
    /\ Count(events, "final_summary_chunk") = 1
    /\ Last(events) = ErrorEvent("generation")

ProgressTypes == {"thinking", "sql_generated", "query_result", "semantic_search",
                  "summarizing"}
Before(i, t) == \E j \in 1..(i - 1) : events[j].type = t

\* C18: in a stream of data/main.py the first event is thinking; no progress
\* event follows the first final_summary_chunk; summarizing is emitted only
\* once the context has been obtained (after query_result on the structured
\* path, after the lookup that follows semantic_search on the other); and
\* no stream holds both a structured-path event and semantic_search.
C18_PhaseOrder ==
    impl = "data" =>
        /\ events # <<>> => events[1].type = "thinking"
        /\ \A i, j \in 1..Len(events) :
              (events[i].type = "final_summary_chunk" /\ i < j) =>
                  events[j].type \notin ProgressTypes
        /\ \A i \in 1..Len(events) :
              events[i].type = "summarizing" =>
                  /\ context # <<>>
                  /\ \/ Before(i, "query_result")
                     \/ Before(i, "semantic_search") /\ calls.lookup = 1
        /\ ~ /\ Count(events, "sql_generated") + Count(events, "query_result") > 0
             /\ Count(events, "semantic_search") > 0

C18_Witness ==
    /\ impl = "data"
    /\ pc = "finished"
    /\ Count(events, "query_result") = 1
    /\ Count(events, "summarizing") = 1
    /\ Count(events, "final_summary_chunk") = 2
    /\ Last(events).type = "done"

\* C19: when every call of a capability returns or raises and the synthesis
\* stream has finitely many increments, every chat request of
\* backend/main1.py ends with a terminal event as the last event of its
\* stream; and done is emitted only in the step in which the stream signals
\* its end, after every increment it produced was emitted.
C19_ChatTerminates ==
    /\ (impl = "backend" /\ pc = "classify") ~>
          (pc = "finished" /\ events # <<>> /\ Last(events).type \in Terminal)
    /\ [][(impl = "backend" /\ Count(events', "done") > Count(events, "done")) =>
              /\ pc = "streaming"
              /\ pc' = "finished"
              /\ produced' = produced
              /\ ChunkContents(events) = produced
          ]_vars

C19_Witness ==
    /\ impl = "backend"
    /\ pc = "finished"
    /\ Len(produced) = MaxChunks
    /\ ChunkContents(events) = produced
    /\ Last(events).type = "done"

\* C20: a request that fails at a batch leaves the index as it was: the
\* failing step does not touch it, and after the request (no reset having
\* run meanwhile) the index is the one the request found, also when earlier
\* batches of the request were committed.
C20_FailedRequestKeepsIndex ==
    /\ [][(upc = "reading" /\ upc' = "done") => vector_store' = vector_store]_vars
    /\ []((upc = "done" /\ response.detail > 0 /\ ~reset_seen) =>
              vector_store = pre_index)

C20_Witness ==
    /\ upc = "done"
    /\ response = Rejected(2)
    /\ ~reset_seen
    /\ latest # {}
    /\ store # pre_store
    /\ pre_index.exists
    /\ vector_store = pre_index

\* a turn of the loop has ended without a failure: the next file, or the end
LoopTurn == upc = "reading" /\ (file_no' # file_no \/ upc' = "rag")

\* C21: the count a successful ingestion request returns is the sum of the
\* row counts of all its batches (the rows gathered in all_files_df); while
\* the loop runs the count is the rows of the batches read so far; and with
\* backend/main1.py a batch with no rows adds nothing to the count and
\* leaves the table as it is.
C21_CountIsSumOfBatchRows ==
    /\ [][(upc = "rag" /\ upc' = "done" /\ response'.status = 200) =>
              response'.count = all_files_df]_vars
    /\ [](upc \in {"reading", "rag"} => total_records_processed = all_files_df)
    /\ [][(impl = "backend" /\ LoopTurn /\ all_files_df' = all_files_df) =>
              /\ store' = store
              /\ total_records_processed' = total_records_processed]_vars

C21_Witness ==
    /\ impl = "backend"
    /\ upc = "done"
    /\ response = Processed(3)
    /\ ~reset_seen
    /\ Cardinality(latest) = 2

\* C22: get_db closes the session of a request once, and once the request
\* has ended and get_db has closed its session, the session is not open: it
\* holds no transaction, whether the request ended normally or with an
\* exception.
C22_SessionClosedOnce ==
    impl = "backend" =>
        /\ db_closes <= 1
        /\ (ChatEnded /\ db_closes = 1) => ~chat_txn.open

====
